---- MODULE Spec2Model ----
(***************************************************************************)
(* A model of HorridModz/Request-Handler-Python: the Logging sink of       *)
(* src/logger.py and the RequestHandler of src/requesthandler.py.          *)
(*                                                                         *)
(* A Python str is a TLA+ string: + and f-strings are \o, len is Len and    *)
(* s[i:j] is SubSeq.                                                       *)
(***************************************************************************)
EXTENDS Integers, Sequences, FiniteSets

VARIABLES
    config,     \* the thirteen options of the Logging instance (self.print...)
    _enabled,   \* logger.py's module global _enabled
    Log,        \* Logging.Log: the list of recorded messages
    console,    \* what print() has written, one rendered line per element
    meta,       \* history variable: for each element of Log, the call that made it
    call,       \* the RequestHandler call in progress or just ended: its frame
    wire        \* the invocations of requests.get / requests.post, in order

vars == <<config, _enabled, Log, console, meta, call, wire>>

(***************************************************************************)
(* Bounds of the model                                                     *)
(***************************************************************************)
MaxLog == 2

\* The longest text, and the largest dict, handed to the truncation helpers.
MaxText == 5

MaxEntries == 3

\* None where a str (or a dict) is expected, and where an int is expected.
None == "None"
NoneInt == 0 - 1

Msgs == {"a", "b"}

WarningTypes == {None, "", "Net"}

(***************************************************************************)
(* src/logger.py                                                           *)
(***************************************************************************)
LoggingLevel ==
    {"Debug", "Info", "Important", "VeryImportant", "SuperImportant", "Warning"}

OptionNames ==
    {"colorized", "printwarnings", "printdebug", "printinfo", "printimportant",
     "printveryimportant", "printsuperimportant", "printspecial",
     "donotprintspecial", "donotprintsuccessinfo", "allowoverride", "printall",
     "printnone"}

Configs == [OptionNames -> BOOLEAN]

_defaults ==
    [o \in OptionNames |->
        o \notin {"printdebug", "donotprintspecial", "donotprintsuccessinfo", "printnone"}]

\* Truthiness of an optional string argument (`if warningtype:`, `if auth:`).
Truthy(x) == x # None /\ x # ""

colors(name) ==
    CASE name = "Debug" -> "\\033[0m"
      [] name = "Info" -> "\\033[94m"
      [] name = "Important" -> "\\033[95m"
      [] name = "VeryImportant" -> "\\033[96m"
      [] name = "SuperImportant" -> "\\033[93m"
      [] name = "Warning" -> "\\033[91m"
      [] name = "Special" -> "\\033[92m"
      [] name = "reset" -> "\\033[0m"

\* Logging.printmessage: the line handed to print().
printmessage(message, level, special, colorized) ==
    IF colorized
    THEN IF special
         THEN colors("Special") \o "[" \o level \o "] [Special]: " \o message
                  \o colors("reset")
         ELSE colors(level) \o "[" \o level \o "]: " \o message \o colors("reset")
    ELSE IF special
         THEN "[" \o level \o "] [Special]: " \o message
         ELSE "[" \o level \o "]: " \o message

\* toprint with the printall test of line 87 left out.
toprint_levelonly(cfg, level, special) ==
    IF level = "Debug" /\ cfg.printdebug THEN TRUE
    ELSE IF level = "Info" /\ cfg.printinfo THEN TRUE
    ELSE IF level = "Important" /\ cfg.printimportant THEN TRUE
    ELSE IF level = "VeryImportant" /\ cfg.printveryimportant THEN TRUE
    ELSE IF level = "SuperImportant" /\ cfg.printsuperimportant THEN TRUE
    ELSE IF special /\ cfg.printspecial THEN TRUE
    ELSE FALSE

\* Logging.log, lines 87-102: the value of the local `toprint`.
toprint(cfg, level, special) ==
    IF cfg.printall THEN TRUE
    ELSE IF level = "Debug" /\ cfg.printdebug THEN TRUE
    ELSE IF level = "Info" /\ cfg.printinfo THEN TRUE
    ELSE IF level = "Important" /\ cfg.printimportant THEN TRUE
    ELSE IF level = "VeryImportant" /\ cfg.printveryimportant THEN TRUE
    ELSE IF level = "SuperImportant" /\ cfg.printsuperimportant THEN TRUE
    ELSE IF special /\ cfg.printspecial THEN TRUE
    ELSE FALSE

\* earlyreturn with the printnone test of line 80 placed after the override test,
\* so that an honoured override skips it.
earlyreturn_overridebeatsmute(cfg, override, successinfo, special) ==
    IF ~(override /\ cfg.allowoverride)
    THEN IF cfg.printnone THEN TRUE
         ELSE IF successinfo /\ cfg.donotprintsuccessinfo THEN TRUE
         ELSE IF special /\ cfg.donotprintspecial THEN TRUE
         ELSE FALSE
    ELSE FALSE

\* earlyreturn with line 82 testing override alone, allowoverride forgotten.
earlyreturn_anyoverride(cfg, override, successinfo, special) ==
    IF cfg.printnone THEN TRUE
    ELSE IF ~override
         THEN IF successinfo /\ cfg.donotprintsuccessinfo THEN TRUE
              ELSE IF special /\ cfg.donotprintspecial THEN TRUE
              ELSE FALSE
         ELSE FALSE

\* Logging.log, lines 80-86: TRUE when the call returns before `toprint` is computed.
earlyreturn(cfg, override, successinfo, special) ==
    IF cfg.printnone THEN TRUE
    ELSE IF ~(override /\ cfg.allowoverride)
         THEN IF successinfo /\ cfg.donotprintsuccessinfo THEN TRUE
              ELSE IF special /\ cfg.donotprintspecial THEN TRUE
              ELSE FALSE
         ELSE FALSE

\* A sink is the pair of the instance's Log and the console it prints to.
Sink(l, c) == [Log |-> l, console |-> c]

\* log with the append of line 79 placed after the early returns of lines 80-86.
log_appendlate(cfg, en, sink, message, level, override, successinfo, special) ==
    LET appended == Append(sink.Log, message)
    IN  IF earlyreturn(cfg, override, successinfo, special)
        THEN sink
        ELSE IF toprint(cfg, level, special) /\ en
             THEN Sink(appended,
                       Append(sink.console,
                              printmessage(message, level, special, cfg.colorized)))
             ELSE Sink(appended, sink.console)

\* Logging.log as a function of the sink: the sink after the call.
log(cfg, en, sink, message, level, override, successinfo, special) ==
    LET appended == Append(sink.Log, message)
    IN  IF earlyreturn(cfg, override, successinfo, special)
        THEN Sink(appended, sink.console)
        ELSE IF toprint(cfg, level, special) /\ en
             THEN Sink(appended,
                       Append(sink.console,
                              printmessage(message, level, special, cfg.colorized)))
             ELSE Sink(appended, sink.console)

\* Logging.warning as a function of the sink.
warning(cfg, en, sink, message, warningtype) ==
    IF Truthy(warningtype)
    THEN Sink(Append(sink.Log, "[Warning]: " \o warningtype \o ": " \o message),
              IF cfg.printwarnings /\ en
              THEN Append(sink.console,
                          printmessage(warningtype \o ": " \o message, "Warning",
                                       FALSE, cfg.colorized))
              ELSE sink.console)
    ELSE Sink(Append(sink.Log, "[Warning]: " \o message),
              IF cfg.printwarnings /\ en
              THEN Append(sink.console,
                          printmessage(message, "Warning", FALSE, cfg.colorized))
              ELSE sink.console)

\* The history entry of one call: its arguments and whether it printed a line.
LogCall(message, level, override, successinfo, special, printed) ==
    [op |-> "log", message |-> message, level |-> level, override |-> override,
     successinfo |-> successinfo, special |-> special, warningtype |-> None,
     printed |-> printed]

WarnCall(message, warningtype, printed) ==
    [op |-> "warning", message |-> message, level |-> "Warning", override |-> FALSE,
     successinfo |-> FALSE, special |-> FALSE, warningtype |-> warningtype,
     printed |-> printed]

\* The logger with its history variable: [Log, console, meta].
Logger(l, c, m) == [Log |-> l, console |-> c, meta |-> m]

\* logging.log(message, level, override, successinfo, special) on the logger lg.
logging_log(cfg, en, lg, message, level, override, successinfo, special) ==
    LET s == log(cfg, en, Sink(lg.Log, lg.console), message, level, override,
                 successinfo, special)
    IN  Logger(s.Log, s.console,
               Append(lg.meta, LogCall(message, level, override, successinfo, special,
                                       Len(s.console) > Len(lg.console))))

\* logging.warning(message, warningtype) on the logger lg.
logging_warning(cfg, en, lg, message, warningtype) ==
    LET s == warning(cfg, en, Sink(lg.Log, lg.console), message, warningtype)
    IN  Logger(s.Log, s.console,
               Append(lg.meta, WarnCall(message, warningtype,
                                        Len(s.console) > Len(lg.console))))

SetLogger(lg) ==
    /\ Log' = lg.Log
    /\ console' = lg.console
    /\ meta' = lg.meta

\* A caller invokes logging.log(message, level, override, successinfo, special).
DoLog(message, level, override, successinfo, special) ==
    /\ SetLogger(logging_log(config, _enabled, Logger(Log, console, meta), message,
                             level, override, successinfo, special))
    /\ UNCHANGED <<config, _enabled, call, wire>>

\* A caller invokes logging.warning(message, warningtype).
DoWarning(message, warningtype) ==
    /\ SetLogger(logging_warning(config, _enabled, Logger(Log, console, meta), message,
                                 warningtype))
    /\ UNCHANGED <<config, _enabled, call, wire>>

disable_logging ==
    /\ _enabled' = FALSE
    /\ UNCHANGED <<config, Log, console, meta, call, wire>>

enable_logging ==
    /\ _enabled' = TRUE
    /\ UNCHANGED <<config, Log, console, meta, call, wire>>

(***************************************************************************)
(* Python values. A str is a TLA+ string; a dict is the sequence of its    *)
(* <<key, value>> pairs in insertion order; None is the value None.        *)
(***************************************************************************)
\* `sub in s` for strings.
Contains(s, sub) ==
    \/ sub = ""
    \/ \E i \in 1..(Len(s) - Len(sub) + 1) : SubSeq(s, i, i + Len(sub) - 1) = sub

Forcibly == "An existing connection was forcibly closed by the remote host"

NoInternetPhrases ==
    <<"Max retries exceeded with url:", "Caused by NewConnectionError",
      "Failed to establish a new connection:">>

\* An error text holding the forcibly-closed phrase iff f, and the i-th
\* no-internet phrase iff i \in S.
ErrText(f, S) ==
    "Pool(host='h'): "
        \o (IF 1 \in S THEN NoInternetPhrases[1] \o " / (" ELSE "")
        \o (IF 2 \in S THEN NoInternetPhrases[2] \o "('" ELSE "")
        \o (IF 3 \in S THEN NoInternetPhrases[3] \o " [Errno 11001]" ELSE "")
        \o (IF f THEN " 10054, '" \o Forcibly \o "'" ELSE "")

Digit(d) ==
    CASE d = 0 -> "0" [] d = 1 -> "1" [] d = 2 -> "2" [] d = 3 -> "3" [] d = 4 -> "4"
      [] d = 5 -> "5" [] d = 6 -> "6" [] d = 7 -> "7" [] d = 8 -> "8" [] d = 9 -> "9"

RECURSIVE IntStr(_)
\* str(n) for an int n >= 0.
IntStr(n) == IF n < 10 THEN Digit(n) ELSE IntStr(n \div 10) \o Digit(n % 10)

\* `key in d`
HasKey(d, key) == \E i \in 1..Len(d) : d[i][1] = key

\* d[key] = value
SetItem(d, key, value) ==
    IF HasKey(d, key)
    THEN [i \in 1..Len(d) |-> IF d[i][1] = key THEN <<key, value>> ELSE d[i]]
    ELSE Append(d, <<key, value>>)

\* d[key], for a key of d
GetItem(d, key) == d[CHOOSE i \in 1..Len(d) : d[i][1] = key][2]

RECURSIVE Join(_, _)
\* sep.join(items)
Join(sep, items) ==
    IF Len(items) = 0 THEN ""
    ELSE IF Len(items) = 1 THEN items[1]
    ELSE items[1] \o sep \o Join(sep, Tail(items))

(***************************************************************************)
(* src/requesthandler.py: helpers                                          *)
(***************************************************************************)
RECURSIVE list_rest(_, _)
\* _list_items, lines 31-32: the loop over items[0 .. len-2]
list_rest(items, i) ==
    IF i > Len(items) - 1 THEN "" ELSE items[i] \o ", " \o list_rest(items, i + 1)

\* _list_items, for a list (the callers pass lists) of one or more items
_list_items(items) ==
    IF Len(items) = 1 THEN items[1]
    ELSE IF Len(items) = 2 THEN items[1] \o " and " \o items[2]
    ELSE list_rest(items, 1) \o "and " \o items[Len(items)]

\* The line boundaries of str.splitlines() that a TLA+ string can hold.
LineBreaks == {"\n", "\r", "\f"}

RECURSIVE splitfrom(_, _, _)
\* str.splitlines(): scan from position i with the current line cur
splitfrom(s, i, cur) ==
    IF i > Len(s)
    THEN IF cur = "" THEN << >> ELSE <<cur>>
    ELSE LET c == SubSeq(s, i, i)
         IN  IF c = "\r" /\ i < Len(s) /\ SubSeq(s, i + 1, i + 1) = "\n"
             THEN <<cur>> \o splitfrom(s, i + 2, "")
             ELSE IF c \in LineBreaks
             THEN <<cur>> \o splitfrom(s, i + 1, "")
             ELSE splitfrom(s, i + 1, cur \o c)

splitlines(s) == splitfrom(s, 1, "")

\* A truncation that tests the line limit before the length limit.
_truncatestring_linesfirst(s, maxlength, maxlines) ==
    LET lines == splitlines(s)
    IN  IF maxlines # NoneInt /\ maxlines # 0 /\ Len(lines) > maxlines
        THEN Join("\n", SubSeq(lines, 1, maxlines - 1)) \o "...[Truncated]"
        ELSE IF maxlength # NoneInt /\ maxlength # 0 /\ Len(s) > maxlength
        THEN SubSeq(s, 1, maxlength - 1) \o "...[Truncated]"
        ELSE s

\* A truncation that keeps maxlines lines, not maxlines - 1.
_truncatestring_keepmaxlines(s, maxlength, maxlines) ==
    IF maxlength # NoneInt /\ maxlength # 0 /\ Len(s) > maxlength
    THEN SubSeq(s, 1, maxlength - 1) \o "...[Truncated]"
    ELSE LET lines == splitlines(s)
         IN  IF maxlines # NoneInt /\ maxlines # 0 /\ Len(lines) > maxlines
             THEN Join("\n", SubSeq(lines, 1, maxlines)) \o "...[Truncated]"
             ELSE s

\* _truncatestring; maxlength and maxlines are NoneInt or an int >= 0
_truncatestring(s, maxlength, maxlines) ==
    IF maxlength # NoneInt /\ maxlength # 0 /\ Len(s) > maxlength
    THEN SubSeq(s, 1, maxlength - 1) \o "...[Truncated]"
    ELSE LET lines == splitlines(s)
         IN  IF maxlines # NoneInt /\ maxlines # 0 /\ Len(lines) > maxlines
             THEN Join("\n", SubSeq(lines, 1, maxlines - 1)) \o "...[Truncated]"
             ELSE s

\* A rendering that marks a dict as truncated as soon as it is full.
_truncatedict_marksfull(d, maxitems, maxlengthperitem, maxlinesperitem) ==
    LET all == [i \in 1..Len(d) |->
                   _truncatestring(d[i][1] \o ": " \o d[i][2], maxlengthperitem,
                                   maxlinesperitem)]
        hastruncateditems == maxitems # NoneInt /\ maxitems # 0 /\ Len(all) >= maxitems
        items == IF hastruncateditems THEN SubSeq(all, 1, maxitems) ELSE all
        dictstring ==
            "{" \o Join(" ", [i \in 1..Len(items) |->
                                 IF i < Len(items) THEN items[i] \o "," ELSE items[i]])
                \o "}"
    IN  IF hastruncateditems THEN dictstring \o "...[Truncated Items]" ELSE dictstring

\* _truncatedict; the values of d are strings
_truncatedict(d, maxitems, maxlengthperitem, maxlinesperitem) ==
    LET all == [i \in 1..Len(d) |->
                   _truncatestring(d[i][1] \o ": " \o d[i][2], maxlengthperitem,
                                   maxlinesperitem)]
        hastruncateditems == maxitems # NoneInt /\ maxitems # 0 /\ Len(all) > maxitems
        items == IF hastruncateditems THEN SubSeq(all, 1, maxitems) ELSE all
        dictstring ==
            "{" \o Join(" ", [i \in 1..Len(items) |->
                                 IF i < Len(items) THEN items[i] \o "," ELSE items[i]])
                \o "}"
    IN  IF hastruncateditems THEN dictstring \o "...[Truncated Items]" ELSE dictstring

(***************************************************************************)
(* src/requesthandler.py: RequestHandler                                   *)
(***************************************************************************)
\* None where a dict is expected.
NoneDict == <<<<None, None>>>>

\* bool(d) for an optional dict
DictTruthy(d) == d # NoneDict /\ Len(d) > 0

\* What a call ends with: the value returned or the exception raised.
Outcome(kind, status, message) == [kind |-> kind, status |-> status, message |-> message]

Return(status) == Outcome("response", status, "")

Raise(kind, message) == Outcome(kind, NoneInt, message)

\* What requests.get / requests.post ends with: a response, a
\* requests.ConnectionError or any other exception; text is str(e).
Transport(type, status, text) == [type |-> type, status |-> status, text |-> text]

\* get and post, `if timeout <= 0: timeout = None`
normal_timeout(timeout) == IF timeout <= 0 THEN NoneInt ELSE timeout


\* A Building step that sets Authorization from auth over the caller's own header.
get_headers_overwrite(headers, auth, cache) ==
    LET h0 == IF headers = NoneDict THEN << >> ELSE headers
        h1 == IF Truthy(auth) THEN SetItem(h0, "Authorization", auth) ELSE h0
    IN  IF ~cache /\ ~HasKey(h1, "Cache-Control")
        THEN SetItem(h1, "Cache-Control", "no-cache") ELSE h1

\* get, lines 151-156: the headers handed to requests.get
get_headers(headers, auth, cache) ==
    LET h0 == IF headers = NoneDict THEN << >> ELSE headers
        h1 == IF Truthy(auth) /\ ~HasKey(h0, "Authorization")
              THEN SetItem(h0, "Authorization", auth) ELSE h0
    IN  IF ~cache /\ ~HasKey(h1, "Cache-Control")
        THEN SetItem(h1, "Cache-Control", "no-cache") ELSE h1

\* get, lines 157-168: the message of the attempt; headers and timeout as built
get_logmessage(link, params, headers, timeout) ==
    LET m0 == "Making HTTP get request to " \o link
        r1 == IF DictTruthy(params)
              THEN <<"params " \o _truncatedict(params, 3, 45, 1)>> ELSE << >>
        r2 == IF DictTruthy(headers)
              THEN Append(r1, "headers " \o _truncatedict(headers, 3, 45, 1)) ELSE r1
        m1 == IF Len(r2) > 0 THEN m0 \o " with " \o _list_items(r2) ELSE m0
    IN  IF timeout # NoneInt /\ timeout # 0
        THEN m1 \o " with timeout of " \o IntStr(timeout) \o " seconds..." ELSE m1


\* A classifier that tests the three no-internet phrases before the forcibly-closed
\* phrase.
get_connectionerror_nointernetfirst(link, errormessage, e) ==
    LET prefix == IF Truthy(errormessage) THEN errormessage \o ": " ELSE ""
    IN  IF /\ Contains(e, "Failed to establish a new connection:")
           /\ Contains(e, "Max retries exceeded with url:")
           /\ Contains(e, "Caused by NewConnectionError")
        THEN Raise("NoInternetError", prefix \o "HTTP get request to " \o link
                       \o " failed - No internet connection")
        ELSE IF Contains(e, "An existing connection was forcibly closed by the remote host")
        THEN Raise("HTTPError", prefix \o "HTTP get request to " \o link
                       \o " failed - Connection forcibly closed by remote host")
        ELSE Raise("HTTPError", prefix \o "HTTP get request to " \o link
                       \o " failed - " \o e)

\* get, lines 172-193: `except requests.ConnectionError as e`, e the text str(e)
get_connectionerror(link, errormessage, e) ==
    IF Contains(e, "An existing connection was forcibly closed by the remote host")
    THEN IF Truthy(errormessage)
         THEN Raise("HTTPError", errormessage \o ": HTTP get request to " \o link
                        \o " failed - Connection forcibly closed" \o " by remote host")
         ELSE Raise("HTTPError", "HTTP get request to " \o link
                        \o " failed - Connection forcibly closed" \o " by remote host")
    ELSE IF /\ Contains(e, "Failed to establish a new connection:")
            /\ Contains(e, "Max retries exceeded with url:")
            /\ Contains(e, "Caused by NewConnectionError")
    THEN IF Truthy(errormessage)
         THEN Raise("NoInternetError", errormessage \o ": HTTP get request to " \o link
                        \o " failed" \o " - No internet connection")
         ELSE Raise("NoInternetError", "HTTP get request to " \o link \o " failed"
                        \o " - No internet connection")
    ELSE IF Truthy(errormessage)
         THEN Raise("HTTPError", errormessage \o ": HTTP get request to " \o link
                        \o " failed - " \o e)
         ELSE Raise("HTTPError", "HTTP get request to " \o link \o " failed - " \o e)

\* get, lines 194-198: `except Exception as e`
get_exception(link, errormessage, e) ==
    IF Truthy(errormessage)
    THEN Raise("HTTPError", errormessage \o ": HTTP get request to " \o link
                   \o " failed - " \o e)
    ELSE Raise("HTTPError", "HTTP get request to " \o link \o " failed - " \o e)

\* The logger and the outcome a handler ends with.
Ended(lg, out) == [lg |-> lg, out |-> out]


\* A status handler that records a bad status it does not raise as an ordinary
\* Info record, not as success-info.
get_response_plaininfo(cfg, en, lg, link, errormessage, exceptionifbadstatuscode, status_code) ==
    IF status_code = 200
    THEN Ended(logging_log(cfg, en, lg, "Successfully made HTTP get request to " \o link,
                           "Info", FALSE, TRUE, FALSE),
               Return(status_code))
    ELSE IF exceptionifbadstatuscode
    THEN Ended(lg, Raise("HTTPError",
                   (IF Truthy(errormessage) THEN errormessage \o ": " ELSE "")
                       \o "HTTP get request to " \o link \o " failed"
                       \o " - returned non-200 http status code ("
                       \o IntStr(status_code) \o ")"))
    ELSE Ended(logging_log(cfg, en, lg,
                           "HTTP get request to " \o link \o " failed"
                               \o " - returned non-200 http status code ("
                               \o IntStr(status_code) \o ")",
                           "Info", FALSE, FALSE, FALSE),
               Return(status_code))

\* get, lines 199-213: the response has arrived
get_response(cfg, en, lg, link, errormessage, exceptionifbadstatuscode, status_code) ==
    IF status_code = 200
    THEN Ended(logging_log(cfg, en, lg, "Successfully made HTTP get request to " \o link,
                           "Info", FALSE, TRUE, FALSE),
               Return(status_code))
    ELSE IF exceptionifbadstatuscode
    THEN IF Truthy(errormessage)
         THEN Ended(lg, Raise("HTTPError",
                        errormessage \o ": HTTP get request to " \o link \o " failed"
                            \o " - returned non-200 http status code ("
                            \o IntStr(status_code) \o ")"))
         ELSE Ended(lg, Raise("HTTPError",
                        "HTTP get request to " \o link \o " failed"
                            \o " - returned non-200 http status code ("
                            \o IntStr(status_code) \o ")"))
    ELSE Ended(logging_log(cfg, en, lg,
                           "HTTP get request to " \o link \o " failed"
                               \o " - returned non-200 http status code ("
                               \o IntStr(status_code) \o ")",
                           "Info", FALSE, TRUE, FALSE),
               Return(status_code))

\* A get that records a connection failure as success-info before raising it.
get_after_recordsfailure(cfg, en, lg, link, errormessage, exceptionifbadstatuscode, t) ==
    IF t.type = "ConnectionError"
    THEN Ended(logging_log(cfg, en, lg, "HTTP get request to " \o link \o " failed",
                           "Info", FALSE, TRUE, FALSE),
               get_connectionerror(link, errormessage, t.text))
    ELSE IF t.type = "Exception"
    THEN Ended(lg, get_exception(link, errormessage, t.text))
    ELSE get_response(cfg, en, lg, link, errormessage, exceptionifbadstatuscode,
                      t.status)

\* get, lines 170-213: from the moment requests.get ends with t
get_after(cfg, en, lg, link, errormessage, exceptionifbadstatuscode, t) ==
    IF t.type = "ConnectionError"
    THEN Ended(lg, get_connectionerror(link, errormessage, t.text))
    ELSE IF t.type = "Exception"
    THEN Ended(lg, get_exception(link, errormessage, t.text))
    ELSE get_response(cfg, en, lg, link, errormessage, exceptionifbadstatuscode,
                      t.status)

\* The body of a post: type(data), bool(data) and str(data).
Data(type, truthy, repr) == [type |-> type, truthy |-> truthy, repr |-> repr]

NoData == Data("NoneType", FALSE, "None")

\* post, lines 251-263: TRUE when the call raises ValueError
post_undetected(data, contenttype, headers) ==
    LET h0 == IF headers = NoneDict THEN << >> ELSE headers
    IN  /\ data.type # "NoneType"
        /\ ~HasKey(h0, "Content-Type")
        /\ ~Truthy(contenttype)
        /\ data.type # "str"
        /\ data.type # "dict"


\* A detection that takes every undeclared body for JSON.
post_contenttype_alwaysjson(data, contenttype) ==
    IF ~Truthy(contenttype) THEN "application/json" ELSE contenttype

\* post, lines 252-256: the content type after detection
post_contenttype(data, contenttype) ==
    IF ~Truthy(contenttype)
    THEN IF data.type = "str" THEN "text/plain" ELSE "application/json"
    ELSE contenttype

\* post, lines 249-265: the headers handed to requests.post
post_headers(data, contenttype, headers, auth) ==
    LET h0 == IF headers = NoneDict THEN << >> ELSE headers
        h1 == IF data.type # "NoneType" /\ ~HasKey(h0, "Content-Type")
              THEN SetItem(h0, "Content-Type", post_contenttype(data, contenttype))
              ELSE h0
    IN  IF Truthy(auth) /\ ~HasKey(h1, "Authorization")
        THEN SetItem(h1, "Authorization", auth) ELSE h1

\* post, lines 251-262: the logger after content-type resolution
post_detect(cfg, en, lg, data, contenttype, headers) ==
    LET h0 == IF headers = NoneDict THEN << >> ELSE headers
    IN  IF data.type # "NoneType" /\ ~HasKey(h0, "Content-Type") /\ ~Truthy(contenttype)
        THEN logging_log(cfg, en, lg,
                         "Automatically detected content type of data" \o " \""
                             \o _truncatestring(data.repr, 100, 1) \o "\": "
                             \o post_contenttype(data, contenttype),
                         "Info", FALSE, FALSE, FALSE)
        ELSE lg

\* post, lines 266-281: the message of the attempt; headers and timeout as built
post_logmessage(link, data, json, headers, timeout) ==
    LET m0 == "Making HTTP post request to " \o link
        r1 == IF data.truthy
              THEN <<"data \"" \o _truncatestring(data.repr, 100, 1) \o "\""
                         \o " of content type " \o GetItem(headers, "Content-Type")>>
              ELSE <<"empty body">>
        r2 == IF DictTruthy(json)
              THEN Append(r1, "json " \o _truncatedict(json, 3, 45, 1)) ELSE r1
        r3 == IF DictTruthy(headers)
              THEN Append(r2, "headers " \o _truncatedict(headers, 3, 45, 1)) ELSE r2
        m1 == IF Len(r3) > 0 THEN m0 \o " with " \o _list_items(r3) ELSE m0
    IN  IF timeout # NoneInt /\ timeout # 0
        THEN m1 \o " with timeout of " \o IntStr(timeout) \o " seconds..." ELSE m1

\* post, lines 285-306: `except requests.ConnectionError as e`
post_connectionerror(link, errormessage, e) ==
    IF Contains(e, "An existing connection was forcibly closed by the remote host")
    THEN IF Truthy(errormessage)
         THEN Raise("HTTPError", errormessage \o ": HTTP get request to " \o link
                        \o " failed - Connection forcibly closed" \o " by remote host")
         ELSE Raise("HTTPError", "HTTP get request to " \o link
                        \o " failed - Connection forcibly closed" \o " by remote host")
    ELSE IF /\ Contains(e, "Failed to establish a new connection:")
            /\ Contains(e, "Max retries exceeded with url:")
            /\ Contains(e, "Caused by NewConnectionError")
    THEN IF Truthy(errormessage)
         THEN Raise("NoInternetError", errormessage \o ": HTTP post request to " \o link
                        \o " failed" \o " - No internet connection")
         ELSE Raise("NoInternetError", "HTTP post request to " \o link \o " failed"
                        \o " - No internet connection")
    ELSE IF Truthy(errormessage)
         THEN Raise("HTTPError", errormessage \o ": HTTP post request to " \o link
                        \o " failed - " \o e)
         ELSE Raise("HTTPError", "HTTP post request to " \o link \o " failed - " \o e)

\* post, lines 307-311: `except Exception as e`
post_exception(link, errormessage, e) ==
    IF Truthy(errormessage)
    THEN Raise("HTTPError", errormessage \o ": HTTP post request to " \o link
                   \o " failed - " \o e)
    ELSE Raise("HTTPError", "HTTP post request to " \o link \o " failed - " \o e)

\* post, lines 312-326: the response has arrived
post_response(cfg, en, lg, link, errormessage, exceptionifbadstatuscode, status_code) ==
    IF status_code = 200
    THEN Ended(logging_log(cfg, en, lg, "Successfully made HTTP post request to " \o link,
                           "Info", FALSE, TRUE, FALSE),
               Return(status_code))
    ELSE IF exceptionifbadstatuscode
    THEN IF Truthy(errormessage)
         THEN Ended(lg, Raise("HTTPError",
                        errormessage \o ": HTTP get request to " \o link \o " failed"
                            \o " - returned non-200 http status code ("
                            \o IntStr(status_code) \o ")"))
         ELSE Ended(lg, Raise("HTTPError",
                        "HTTP post request to " \o link \o " failed"
                            \o " - returned non-200 http status code ("
                            \o IntStr(status_code) \o ")"))
    ELSE Ended(logging_log(cfg, en, lg,
                           "HTTP post request to " \o link \o " failed"
                               \o " - returned non-200 http status code ("
                               \o IntStr(status_code) \o ")",
                           "Info", FALSE, TRUE, FALSE),
               Return(status_code))

\* post, lines 283-326: from the moment requests.post ends with t
post_after(cfg, en, lg, link, errormessage, exceptionifbadstatuscode, t) ==
    IF t.type = "ConnectionError"
    THEN Ended(lg, post_connectionerror(link, errormessage, t.text))
    ELSE IF t.type = "Exception"
    THEN Ended(lg, post_exception(link, errormessage, t.text))
    ELSE post_response(cfg, en, lg, link, errormessage, exceptionifbadstatuscode,
                       t.status)

\* check_internet, lines 337-342: the two records before the probe
check_internet_before(cfg, en, lg, testurl, timeout) ==
    LET l1 == IF timeout # NoneInt /\ timeout # 0
              THEN logging_log(cfg, en, lg,
                               "Checking for internet connection with timeout of "
                                   \o IntStr(timeout) \o " seconds...",
                               "Info", FALSE, FALSE, FALSE)
              ELSE logging_log(cfg, en, lg, "Checking for internet connection...",
                               "Info", FALSE, FALSE, FALSE)
    IN  logging_log(cfg, en, l1, "Using " \o testurl \o " to check for internet connection",
                    "Debug", FALSE, FALSE, FALSE)

\* check_internet, lines 343-349: probe is what RequestHandler.get ended with
check_internet_after(cfg, en, probe) ==
    IF probe.out.kind = "NoInternetError"
    THEN Ended(probe.lg, Outcome("False", NoneInt, ""))
    ELSE IF probe.out.kind = "response"
    THEN Ended(logging_log(cfg, en, probe.lg, "Successfully confirmed internet connection!",
                           "Info", FALSE, TRUE, FALSE),
               Outcome("True", NoneInt, ""))
    ELSE probe

\* assert_internet, lines 361-362: checked is what check_internet ended with
assert_internet_after(checked) ==
    IF checked.out.kind = "False"
    THEN Ended(checked.lg, Raise("NoInternetError", "No internet connection"))
    ELSE IF checked.out.kind = "True"
    THEN Ended(checked.lg, Outcome("None", NoneInt, ""))
    ELSE checked

\* The frame of a RequestHandler call. state is the call's position: "Sent" while
\* requests.get / requests.post runs, "Succeeded" once the call has returned,
\* "Failed" once it has raised; logstart is len(Log) when the call began and
\* logsent when it invoked the transport, got is what the transport ended with and
\* result what the call ended with.
Idle == [state |-> "Idle"]

NoTransport == Transport("none", NoneInt, "")

NoOutcome == Outcome("none", NoneInt, "")

Args(link, params, auth, cache, headers, timeout, errormessage, exceptionifbadstatuscode, data, contenttype, json) ==
    [link |-> link, params |-> params, auth |-> auth, cache |-> cache,
     headers |-> headers, timeout |-> timeout, errormessage |-> errormessage,
     exceptionifbadstatuscode |-> exceptionifbadstatuscode, data |-> data,
     contenttype |-> contenttype, json |-> json]

Frame(state, op, args, logstart, logsent, got, result) ==
    [state |-> state, op |-> op, args |-> args, logstart |-> logstart,
     logsent |-> logsent, got |-> got, result |-> result]

\* One invocation of requests.get(link, params=, headers=, timeout=) or
\* requests.post(link, json=, headers=, timeout=).
Request(verb, link, params, json, headers, timeout) ==
    [verb |-> verb, link |-> link, params |-> params, json |-> json,
     headers |-> headers, timeout |-> timeout]

\* RequestHandler.get up to and including the invocation of requests.get, entered
\* by operation op with the logger lg.
get_send(op, lg, a) ==
    LET h == get_headers(a.headers, a.auth, a.cache)
        to == normal_timeout(a.timeout)
        lg1 == logging_log(config, _enabled, lg, get_logmessage(a.link, a.params, h, to),
                           "Info", FALSE, FALSE, FALSE)
    IN  /\ SetLogger(lg1)
        /\ wire' = Append(wire, Request("get", a.link, a.params, NoneDict, h, to))
        /\ call' = Frame("Sent", op, a, Len(Log), Len(lg1.Log), NoTransport, NoOutcome)
        /\ UNCHANGED <<config, _enabled>>

\* RequestHandler.get(link, params, auth, cache, headers, timeout, errormessage,
\* exceptionifbadstatuscode) is called.
GetCall(link, params, auth, cache, headers, timeout, errormessage, exceptionifbadstatuscode) ==
    /\ call.state = "Idle"
    /\ get_send("get", Logger(Log, console, meta),
                Args(link, params, auth, cache, headers, timeout, errormessage,
                     exceptionifbadstatuscode, NoData, None, NoneDict))

\* RequestHandler.post(link, data, contenttype, json, auth, headers, timeout,
\* errormessage, exceptionifbadstatuscode) is called.
PostCall(link, data, contenttype, json, auth, headers, timeout, errormessage, exceptionifbadstatuscode) ==
    LET a == Args(link, NoneDict, auth, TRUE, headers, timeout, errormessage,
                  exceptionifbadstatuscode, data, contenttype, json)
        lg0 == Logger(Log, console, meta)
    IN  /\ call.state = "Idle"
        /\ IF post_undetected(data, contenttype, headers)
           THEN /\ call' = Frame("Failed", "post", a, Len(Log), Len(Log), NoTransport,
                                 Raise("ValueError",
                                       "Failed to make http post request to " \o link
                                           \o ": Could not determine content type of"
                                           \o " data, which is of type " \o "type"
                                           \o ". Please manually"
                                           \o " supply the content type using the contenttype parameter."))
                /\ UNCHANGED <<config, _enabled, Log, console, meta, wire>>
           ELSE LET h == post_headers(data, contenttype, headers, auth)
                    to == normal_timeout(timeout)
                    lg1 == post_detect(config, _enabled, lg0, data, contenttype, headers)
                    lg2 == logging_log(config, _enabled, lg1,
                                       post_logmessage(link, data, json, h, to),
                                       "Info", FALSE, FALSE, FALSE)
                IN  /\ SetLogger(lg2)
                    /\ wire' = Append(wire, Request("post", link, NoneDict, json, h, to))
                    /\ call' = Frame("Sent", "post", a, Len(Log), Len(lg2.Log),
                                     NoTransport, NoOutcome)
                    /\ UNCHANGED <<config, _enabled>>

\* The arguments check_internet passes to RequestHandler.get (line 344).
probe_args(testurl, timeout) ==
    Args(testurl, NoneDict, None, TRUE, NoneDict, timeout,
         "Failed to check for internet connection", TRUE, NoData, None, NoneDict)

\* RequestHandler.check_internet(testurl, timeout) is called.
CheckInternetCall(testurl, timeout) ==
    /\ call.state = "Idle"
    /\ get_send("check_internet",
                check_internet_before(config, _enabled, Logger(Log, console, meta),
                                      testurl, timeout),
                probe_args(testurl, timeout))

\* RequestHandler.assert_internet(testurl, timeout) is called.
AssertInternetCall(testurl, timeout) ==
    /\ call.state = "Idle"
    /\ get_send("assert_internet",
                check_internet_before(config, _enabled, Logger(Log, console, meta),
                                      testurl, timeout),
                probe_args(testurl, timeout))

\* What the call in progress ends with when the transport ends with t.
finish(cfg, en, lg, c, t) ==
    LET a == c.args
        got == get_after(cfg, en, lg, a.link, a.errormessage,
                         a.exceptionifbadstatuscode, t)
    IN  IF c.op = "post"
        THEN post_after(cfg, en, lg, a.link, a.errormessage,
                        a.exceptionifbadstatuscode, t)
        ELSE IF c.op = "get" THEN got
        ELSE IF c.op = "check_internet" THEN check_internet_after(cfg, en, got)
        ELSE assert_internet_after(check_internet_after(cfg, en, got))

Raised(out) == out.kind \in {"HTTPError", "NoInternetError", "ValueError"}

\* requests.get / requests.post ends with t and the call runs to its end.
TransportEnds(t) ==
    /\ call.state = "Sent"
    /\ LET r == finish(config, _enabled, Logger(Log, console, meta), call, t)
       IN  /\ SetLogger(r.lg)
           /\ call' = [call EXCEPT !.state = IF Raised(r.out) THEN "Failed"
                                             ELSE "Succeeded",
                                   !.got = t,
                                   !.result = r.out]
    /\ UNCHANGED <<config, _enabled, wire>>

(***************************************************************************)
(* The inputs the specifications draw from                                 *)
(***************************************************************************)
\* Configurations _loadconfig can return: the defaults, and two files.
quiet ==
    [_defaults EXCEPT !.printall = FALSE, !.donotprintsuccessinfo = TRUE,
                      !.donotprintspecial = TRUE]

muted == [_defaults EXCEPT !.printnone = TRUE]

FileConfigs == {_defaults, quiet, muted}

Links == {"http://h"}

ParamsSet == {NoneDict, <<<<"q", "1">>>>}

AuthSet == {None, "", "tok"}

GetHeaders ==
    {NoneDict, << >>,
     <<<<"Authorization", "own">>>>,
     <<<<"Cache-Control", "max-age=60">>>>,
     <<<<"Cache-Control", "max-age=60">>, <<"Authorization", "own">>>>,
     <<<<"X-Id", "7">>>>,
     <<<<"authorization", "lower">>>>}

PostHeaders ==
    {NoneDict, << >>,
     <<<<"Content-Type", "application/xml">>>>,
     <<<<"Authorization", "own">>>>,
     <<<<"X-Id", "7">>, <<"Content-Type", "">>>>}

Timeouts == {0, 5}

PostTimeouts == {5}

PostAuth == {None, "tok"}

ErrorMessages == {None, "Sync failed"}

Bodies ==
    {NoData, Data("str", FALSE, ""), Data("str", TRUE, "hi"),
     Data("dict", FALSE, "{}"), Data("dict", TRUE, "{'k': 'v'}"),
     Data("int", TRUE, "7"), Data("bytes", FALSE, "b''")}

ContentTypes == {None, "", "text/csv"}

JsonSet == {NoneDict, <<<<"j", "1">>>>}

Statuses == {200, 204, 404}

\* Every combination of the three no-internet phrases, and the forcibly-closed
\* phrase with none and with all three of them.
ConnectionErrors ==
    {Transport("ConnectionError", NoneInt, ErrText(FALSE, S)) : S \in SUBSET (1..3)}
        \cup {Transport("ConnectionError", NoneInt, ErrText(TRUE, S)) : S \in {{}, 1..3}}

Exceptions ==
    {Transport("Exception", NoneInt, e) :
        e \in {"Read timed out.", ErrText(FALSE, 1..3), ErrText(TRUE, {})}}

Responses == {Transport("response", st, "") : st \in Statuses}

TransportOutcomes == Responses \cup ConnectionErrors \cup Exceptions

(***************************************************************************)
(* SpecGate: a sink constructed with any of the 2^13 configurations takes  *)
(* its first call.                                                         *)
(***************************************************************************)
InitGate ==
    /\ config \in Configs
    /\ _enabled = TRUE
    /\ Log = << >>
    /\ console = << >>
    /\ meta = << >>
    /\ call = Idle
    /\ wire = << >>

GateLog ==
    \E m \in Msgs, lv \in LoggingLevel, ov \in BOOLEAN, si \in BOOLEAN, sp \in BOOLEAN :
        DoLog(m, lv, ov, si, sp)

GateWarning == \E m \in Msgs, wt \in WarningTypes : DoWarning(m, wt)

NextGate ==
    /\ Log = << >>
    /\ \/ GateLog
       \/ GateWarning
       \/ disable_logging
       \/ enable_logging

SpecGate == InitGate /\ [][NextGate]_vars

(***************************************************************************)
(* SpecSink: a sink takes up to MaxLog log and warning calls.              *)
(***************************************************************************)
SinkLevels == {"Debug", "Info"}

InitSink ==
    /\ config \in FileConfigs
    /\ _enabled = TRUE
    /\ Log = << >>
    /\ console = << >>
    /\ meta = << >>
    /\ call = Idle
    /\ wire = << >>

SinkLog ==
    /\ Len(Log) < MaxLog
    /\ \E m \in Msgs, lv \in SinkLevels, ov \in BOOLEAN, si \in BOOLEAN, sp \in BOOLEAN :
           DoLog(m, lv, ov, si, sp)

SinkWarning ==
    /\ Len(Log) < MaxLog
    /\ \E m \in Msgs, wt \in WarningTypes : DoWarning(m, wt)

NextSink ==
    \/ SinkLog
    \/ SinkWarning
    \/ disable_logging
    \/ enable_logging

SpecSink == InitSink /\ [][NextSink]_vars

(***************************************************************************)
(* Spec: the module has been imported and one RequestHandler operation is  *)
(* called; the transport ends in any of its outcomes.                      *)
(***************************************************************************)
Init ==
    /\ config \in FileConfigs
    /\ _enabled = TRUE
    /\ Log = << >>
    /\ console = << >>
    /\ meta = << >>
    /\ call = Idle
    /\ wire = << >>

Get ==
    /\ call.state = "Idle"
    /\ \E link \in Links, params \in ParamsSet, auth \in AuthSet, cache \in BOOLEAN,
          headers \in GetHeaders, timeout \in Timeouts, errormessage \in ErrorMessages,
          exceptionifbadstatuscode \in BOOLEAN :
           GetCall(link, params, auth, cache, headers, timeout, errormessage,
                   exceptionifbadstatuscode)

Post ==
    /\ call.state = "Idle"
    /\ \E link \in Links, data \in Bodies, contenttype \in ContentTypes, json \in JsonSet,
          auth \in PostAuth, headers \in PostHeaders, timeout \in PostTimeouts,
          errormessage \in ErrorMessages, exceptionifbadstatuscode \in BOOLEAN :
           PostCall(link, data, contenttype, json, auth, headers, timeout, errormessage,
                    exceptionifbadstatuscode)

CheckInternet == \E testurl \in Links, timeout \in Timeouts : CheckInternetCall(testurl, timeout)

AssertInternet ==
    \E testurl \in Links, timeout \in Timeouts : AssertInternetCall(testurl, timeout)

TransportReturns == call.state = "Sent" /\ \E t \in TransportOutcomes : TransportEnds(t)

Next ==
    \/ Get
    \/ Post
    \/ CheckInternet
    \/ AssertInternet
    \/ TransportReturns
    \/ call.state = "Idle" /\ disable_logging
    \/ call.state = "Idle" /\ enable_logging

Spec == Init /\ [][Next]_vars

(***************************************************************************)
(* The truncation helpers, called on their own                             *)
(***************************************************************************)
\* The characters of the texts: two letters and two line boundaries.
Chars == {"a", "b", "\n", "\r"}

RECURSIVE Texts(_)
\* Every str of exactly n characters.
Texts(n) == IF n = 0 THEN {""} ELSE {t \o c : t \in Texts(n - 1), c \in Chars}

AllTexts == UNION {Texts(n) : n \in 0..MaxText}

\* Optional[int] limits: None, 0 and the positive limits.
LengthLimits == {NoneInt} \cup 0..MaxText

LineLimits == {NoneInt} \cup 0..3

Keys4 == {"a", "b", "c", "d"}

Values == {"1", "x\ny"}

RECURSIVE Dicts(_)
\* Every dict of exactly n items, as its items in insertion order.
Dicts(n) ==
    IF n = 0 THEN {<< >>}
    ELSE {Append(d, <<k, v>>) : d \in Dicts(n - 1), k \in Keys4, v \in Values}

AllDicts == {d \in UNION {Dicts(n) : n \in 0..MaxEntries} :
                \A i, j \in 1..Len(d) : d[i][1] = d[j][1] => i = j}

ItemLimits == {NoneInt} \cup 0..MaxEntries

PerItemLengths == {NoneInt, 0, 4, 50}

PerItemLines == {NoneInt, 1}

\* The frame of a helper call: called with args, then returned with result.
HelperFrame(state, op, args, result) ==
    [state |-> state, op |-> op, args |-> args, result |-> result]

InitTruncate ==
    /\ config = _defaults
    /\ _enabled = TRUE
    /\ Log = << >>
    /\ console = << >>
    /\ meta = << >>
    /\ wire = << >>
    /\ \/ \E s \in AllTexts, maxlength \in LengthLimits, maxlines \in LineLimits :
             call = HelperFrame("Called", "_truncatestring",
                                [s |-> s, maxlength |-> maxlength, maxlines |-> maxlines],
                                None)
       \/ \E d \in AllDicts, maxitems \in ItemLimits, maxlengthperitem \in PerItemLengths,
             maxlinesperitem \in PerItemLines :
             call = HelperFrame("Called", "_truncatedict",
                                [d |-> d, maxitems |-> maxitems,
                                 maxlengthperitem |-> maxlengthperitem,
                                 maxlinesperitem |-> maxlinesperitem],
                                None)

\* _truncatestring(s, maxlength, maxlines) returns.
TruncateString ==
    /\ call.state = "Called"
    /\ call.op = "_truncatestring"
    /\ call' = [call EXCEPT !.state = "Returned",
                            !.result = _truncatestring(call.args.s, call.args.maxlength,
                                                       call.args.maxlines)]
    /\ UNCHANGED <<config, _enabled, Log, console, meta, wire>>

\* _truncatedict(d, maxitems, maxlengthperitem, maxlinesperitem) returns.
TruncateDict ==
    /\ call.state = "Called"
    /\ call.op = "_truncatedict"
    /\ call' = [call EXCEPT !.state = "Returned",
                            !.result = _truncatedict(call.args.d, call.args.maxitems,
                                                     call.args.maxlengthperitem,
                                                     call.args.maxlinesperitem)]
    /\ UNCHANGED <<config, _enabled, Log, console, meta, wire>>

NextTruncate ==
    \/ TruncateString
    \/ TruncateDict

SpecTruncate == InitTruncate /\ [][NextTruncate]_vars

(***************************************************************************)
(* The sink: claims C1 to C5                                               *)
(***************************************************************************)
\* The record a call is to leave in the history: the message of a log call, the
\* warning-prefixed message (with its kind, when one is given) of a warn call.
RecordText(c) ==
    IF c.op = "log" THEN c.message
    ELSE IF Truthy(c.warningtype)
    THEN "[Warning]: " \o c.warningtype \o ": " \o c.message
    ELSE "[Warning]: " \o c.message

\* C1: after any sequence of log and warn calls on one sink the history holds
\* exactly one record per call, in call order, whatever the configuration and
\* whatever each call's gating outcome (meta holds the calls made, in order).
C1_HistoryIsEveryCallInOrder ==
    /\ Len(Log) = Len(meta)
    /\ \A i \in 1..Len(meta) : Log[i] = RecordText(meta[i])

\* A muted configuration has recorded a warn call that printed and then a log call
\* that did not.
C1_Witness ==
    /\ Len(Log) = MaxLog
    /\ config.printnone
    /\ meta[1].op = "warning" /\ meta[1].printed
    /\ meta[Len(meta)].op = "log" /\ ~meta[Len(meta)].printed
    /\ Log[1] # Log[Len(Log)]

\* The flag of the configuration that matches a level; Warning has none.
LevelFlag(cfg, level) ==
    \/ level = "Debug" /\ cfg.printdebug
    \/ level = "Info" /\ cfg.printinfo
    \/ level = "Important" /\ cfg.printimportant
    \/ level = "VeryImportant" /\ cfg.printveryimportant
    \/ level = "SuperImportant" /\ cfg.printsuperimportant

\* The printAll / level-flag / printSpecial rules (LevelGate steps 3 to 6).
LevelRules(cfg, c) ==
    cfg.printall \/ LevelFlag(cfg, c.level) \/ (c.special /\ cfg.printspecial)

\* The call carries an override the configuration honours.
Overrides(cfg, c) == c.override /\ cfg.allowoverride

\* The suppressSuccessInfo / suppressSpecial rules apply to the call's fields.
SuppressionApplies(cfg, c) ==
    \/ c.successinfo /\ cfg.donotprintsuccessinfo
    \/ c.special /\ cfg.donotprintspecial

LogCalls == {i \in 1..Len(meta) : meta[i].op = "log"}

WarnCalls == {i \in 1..Len(meta) : meta[i].op = "warning"}

\* C2: with printNone = true no log call prints, whatever its level, override,
\* isSuccessInfo and isSpecial and whatever the other flags.
C2_PrintNoneMutesLog ==
    \A i \in LogCalls : config.printnone => ~meta[i].printed /\ console = << >>

\* A muted configuration with printAll and allowOverride set has recorded an
\* overriding log call and printed nothing.
C2_Witness ==
    /\ config.printnone /\ config.printall /\ config.allowoverride /\ _enabled
    /\ LogCalls # {}
    /\ \A i \in LogCalls : meta[i].override /\ meta[i].special /\ ~meta[i].printed

\* C3: a log call with override under allowOverride (and no global mute) is printed
\* exactly when the printAll / level-flag / printSpecial rules say so (console
\* printing being switched on), whether or not the suppression rules apply to it,
\* so it is not printed when printAll, its level flag and the special fallback are
\* all false; without override or without allowOverride a call to which the
\* suppression rules apply is never printed.
C3_OverrideCancelsSuppressionOnly ==
    \A i \in LogCalls :
        /\ (Overrides(config, meta[i]) /\ ~config.printnone)
              => (meta[i].printed <=> (LevelRules(config, meta[i]) /\ _enabled))
        /\ (~Overrides(config, meta[i]) /\ SuppressionApplies(config, meta[i]))
              => ~meta[i].printed

\* An overriding success-info call that suppressSuccessInfo would have dropped was
\* printed because its level flag is set, printAll being false.
C3_Witness ==
    /\ ~config.printnone /\ ~config.printall /\ config.allowoverride
    /\ config.donotprintsuccessinfo /\ config.printinfo
    /\ \E i \in LogCalls :
          /\ meta[i].override /\ meta[i].successinfo /\ ~meta[i].special
          /\ meta[i].level = "Info" /\ meta[i].printed

\* C4, as claimed: with printAll = true every log call not muted by printNone is
\* printed, whatever its override, isSuccessInfo and isSpecial and whatever the other
\* flags (console printing being switched on).
C4_AsClaimed ==
    \A i \in LogCalls :
        (config.printall /\ ~config.printnone /\ _enabled) => meta[i].printed

\* C4, amended: with printAll = true, no global mute and console printing switched
\* on, a log call is printed exactly when the suppression rules do not drop it:
\* when it overrides under allowOverride, or is neither a success-info call under
\* suppressSuccessInfo nor a special call under suppressSpecial.
C4_PrintAllPrintsUnlessSuppressed ==
    \A i \in LogCalls :
        (config.printall /\ ~config.printnone /\ _enabled)
            => (meta[i].printed
                    <=> (Overrides(config, meta[i])
                            \/ ~SuppressionApplies(config, meta[i])))

\* With printAll set and every level flag and printSpecial false, a Debug call was
\* printed.
C4_Witness ==
    /\ config.printall /\ ~config.printnone /\ ~config.printdebug /\ ~config.printspecial
    /\ ~config.printinfo /\ ~config.donotprintsuccessinfo
    /\ \E i \in LogCalls :
          meta[i].level = "Debug" /\ meta[i].successinfo /\ meta[i].printed

\* C5, as claimed: a warn call is printed if and only if printWarnings is true and
\* printNone is not set (console printing being switched on).
C5_AsClaimed ==
    \A i \in WarnCalls :
        _enabled => (meta[i].printed <=> (config.printwarnings /\ ~config.printnone))

(***************************************************************************)
(* The request handler: claims C6 to C10                                   *)
(***************************************************************************)
\* The call has returned or raised.
Ended_ == call.state \in {"Succeeded", "Failed"}

\* The headers the caller passed, and the headers handed to the transport.
CallerHeaders == IF call.args.headers = NoneDict THEN << >> ELSE call.args.headers

SentHeaders == wire[Len(wire)].headers

Keys(d) == {d[i][1] : i \in 1..Len(d)}

\* s ends with suffix.
EndsWith(s, suffix) ==
    /\ Len(suffix) <= Len(s)
    /\ SubSeq(s, Len(s) - Len(suffix) + 1, Len(s)) = suffix

\* The classifier of the spec (4.4) on what the transport ended with.
HasNoInternetPhrases(e) ==
    /\ Contains(e, "Failed to establish a new connection:")
    /\ Contains(e, "Max retries exceeded with url:")
    /\ Contains(e, "Caused by NewConnectionError")

IsForciblyClosed(t) ==
    t.type = "ConnectionError"
        /\ Contains(t.text, "An existing connection was forcibly closed by the remote host")

IsNoInternet(t) ==
    t.type = "ConnectionError" /\ ~IsForciblyClosed(t) /\ HasNoInternetPhrases(t.text)

\* The last record of the history was logged at Info level as success-info.
LastIsSuccessInfo ==
    /\ Len(meta) > 0
    /\ meta[Len(meta)].op = "log"
    /\ meta[Len(meta)].level = "Info"
    /\ meta[Len(meta)].successinfo

\* C6, as claimed: check_internet returns False if and only if the probe ends with
\* NoInternet and returns True for every other probe outcome; assert_internet raises
\* NoInternetError exactly when the probe ends with NoInternet and otherwise
\* returns normally.
C6_AsClaimed ==
    (Ended_ /\ call.op \in {"check_internet", "assert_internet"})
        => IF call.op = "check_internet"
           THEN call.result.kind = (IF IsNoInternet(call.got) THEN "False" ELSE "True")
           ELSE IF IsNoInternet(call.got)
                THEN call.state = "Failed" /\ call.result.kind = "NoInternetError"
                ELSE call.state = "Succeeded" /\ call.result.kind = "None"

\* C7: in get and post, once the transport has returned a response: status 200
\* returns the response and appends one success-info record; another status with
\* exceptionifbadstatuscode raises HTTPError naming that status code and appends no
\* record; another status without it returns the response with its status code and
\* appends exactly one record, logged at Info level as success-info.
C7_StatusHandling ==
    (Ended_ /\ call.op \in {"get", "post"} /\ call.got.type = "response")
        => IF call.got.status = 200
           THEN /\ call.state = "Succeeded"
                /\ call.result = Return(200)
                /\ Len(Log) = call.logsent + 1
                /\ LastIsSuccessInfo
           ELSE IF call.args.exceptionifbadstatuscode
           THEN /\ call.state = "Failed"
                /\ call.result.kind = "HTTPError"
                /\ EndsWith(call.result.message,
                            " - returned non-200 http status code ("
                                \o IntStr(call.got.status) \o ")")
                /\ Len(Log) = call.logsent
           ELSE /\ call.state = "Succeeded"
                /\ call.result = Return(call.got.status)
                /\ Len(Log) = call.logsent + 1
                /\ LastIsSuccessInfo

\* A post whose response was 404 returned it, exceptionifbadstatuscode being false.
C7_Witness ==
    /\ call.state = "Succeeded" /\ call.op = "post"
    /\ call.got.type = "response" /\ call.got.status = 404
    /\ ~call.args.exceptionifbadstatuscode
    /\ call.result.status = 404
    /\ Len(Log) = call.logsent + 1

\* The failure message of the spec: the errorContext prefix, when one is supplied,
\* then the text of the failure with its reason.
FailureMessages(errormessage, link, reason) ==
    {(IF Truthy(errormessage) THEN errormessage \o ": " ELSE "")
         \o "HTTP " \o verb \o " request to " \o link \o " failed - " \o reason :
        verb \in {"get", "post"}}

\* C8: in get and post a connection-level failure is classified in priority order:
\* the forcibly-closed phrase gives HTTPError (Transport) with the forcibly-closed
\* reason even when the three no-internet phrases are present too; otherwise all
\* three no-internet phrases give NoInternetError; otherwise (also with one or two
\* of them) HTTPError with the raw text; any other exception gives HTTPError with
\* the raw text. errormessage is only ever the prefix of the message.
C8_Classification ==
    (Ended_ /\ call.op \in {"get", "post"}
        /\ call.got.type \in {"ConnectionError", "Exception"})
        => LET e == call.got.text
               a == call.args
           IN  /\ call.state = "Failed"
               /\ Len(Log) = call.logsent
               /\ IF IsForciblyClosed(call.got)
                  THEN /\ call.result.kind = "HTTPError"
                       /\ call.result.message
                              \in FailureMessages(a.errormessage, a.link,
                                      "Connection forcibly closed by remote host")
                  ELSE IF IsNoInternet(call.got)
                  THEN /\ call.result.kind = "NoInternetError"
                       /\ call.result.message
                              \in FailureMessages(a.errormessage, a.link,
                                                  "No internet connection")
                  ELSE /\ call.result.kind = "HTTPError"
                       /\ call.result.message
                              \in FailureMessages(a.errormessage, a.link, e)

\* A post with an errormessage failed with HTTPError on a connection error whose text
\* holds the forcibly-closed phrase and all three no-internet phrases.
C8_Witness ==
    /\ call.state = "Failed" /\ call.op = "post"
    /\ call.got.type = "ConnectionError"
    /\ IsForciblyClosed(call.got) /\ HasNoInternetPhrases(call.got.text)
    /\ Truthy(call.args.errormessage)
    /\ call.result.kind = "HTTPError"

\* C9: in post, with a body and no Content-Type among the caller's headers, the
\* header sent is the contenttype argument when one is given, else text/plain for a
\* str body, else application/json for a dict body, else the call raises ValueError
\* with no record appended and the transport not invoked; without a body, or with
\* a caller's Content-Type, the header is sent as the caller supplied it (absent
\* or unchanged) and the call does not raise ValueError.
C9_ContentType ==
    (call.state # "Idle" /\ call.op = "post")
        => LET a == call.args
           IN  IF a.data.type # "NoneType" /\ ~HasKey(CallerHeaders, "Content-Type")
               THEN IF Truthy(a.contenttype) \/ a.data.type \in {"str", "dict"}
                    THEN /\ call.result.kind # "ValueError"
                         /\ Len(wire) = 1
                         /\ HasKey(SentHeaders, "Content-Type")
                         /\ GetItem(SentHeaders, "Content-Type")
                               = (IF Truthy(a.contenttype) THEN a.contenttype
                                  ELSE IF a.data.type = "str" THEN "text/plain"
                                  ELSE "application/json")
                    ELSE /\ call.state = "Failed"
                         /\ call.result.kind = "ValueError"
                         /\ Len(Log) = call.logstart
                         /\ wire = << >>
               ELSE /\ call.result.kind # "ValueError"
                    /\ Len(wire) = 1
                    /\ HasKey(SentHeaders, "Content-Type")
                           <=> HasKey(CallerHeaders, "Content-Type")
                    /\ HasKey(CallerHeaders, "Content-Type")
                           => GetItem(SentHeaders, "Content-Type")
                                  = GetItem(CallerHeaders, "Content-Type")

\* A post of a body that is neither str nor dict, with no contenttype and no
\* Content-Type header, has raised ValueError.
C9_Witness ==
    /\ call.state = "Failed" /\ call.op = "post"
    /\ call.args.data.type = "int" /\ call.args.contenttype = None
    /\ call.result.kind = "ValueError"
    /\ wire = << >> /\ Log = << >>

\* C10: get hands the transport every header of the caller with the caller's
\* value; it adds Authorization, with the value of auth, exactly when auth is given
\* and the caller has no such key, and Cache-Control: no-cache exactly when cache is
\* false and the caller has no such key; it adds and removes no other key.
C10_HeadersBuilt ==
    (call.state # "Idle" /\ call.op = "get")
        => LET a == call.args
               added == Keys(SentHeaders) \ Keys(CallerHeaders)
           IN  /\ \A k \in Keys(CallerHeaders) :
                     /\ HasKey(SentHeaders, k)
                     /\ GetItem(SentHeaders, k) = GetItem(CallerHeaders, k)
               /\ Len(SentHeaders) = Cardinality(Keys(SentHeaders))
               /\ added \subseteq {"Authorization", "Cache-Control"}
               /\ "Authorization" \in added
                     <=> (Truthy(a.auth) /\ ~HasKey(CallerHeaders, "Authorization"))
               /\ "Authorization" \in added
                     => GetItem(SentHeaders, "Authorization") = a.auth
               /\ "Cache-Control" \in added
                     <=> (~a.cache /\ ~HasKey(CallerHeaders, "Cache-Control"))
               /\ "Cache-Control" \in added
                     => GetItem(SentHeaders, "Cache-Control") = "no-cache"

\* A get with auth and cache = False, whose caller supplied an Authorization header
\* of its own, sent the caller's Authorization and added Cache-Control: no-cache.
C10_Witness ==
    /\ call.state = "Sent" /\ call.op = "get"
    /\ Truthy(call.args.auth) /\ ~call.args.cache
    /\ HasKey(CallerHeaders, "Authorization")
    /\ GetItem(SentHeaders, "Authorization") = "own"
    /\ GetItem(SentHeaders, "Authorization") # call.args.auth
    /\ GetItem(SentHeaders, "Cache-Control") = "no-cache"

(***************************************************************************)
(* The truncation helpers: claims C11 to C13                               *)
(***************************************************************************)
\* The truncation marker.
Marker == "...[Truncated]"

\* A call of _truncatestring has returned.
TextReturned == call.state = "Returned" /\ call.op = "_truncatestring"

\* The lines of the text of the call, as str.splitlines() counts them.
TextLines == splitlines(call.args.s)

\* The first n characters of s, and the first n lines joined by newlines.
FirstChars(s, n) == IF n < 1 THEN "" ELSE SubSeq(s, 1, n)

FirstLines(lines, n) == IF n < 1 THEN "" ELSE Join("\n", SubSeq(lines, 1, n))

\* The reference rule of truncateText, given which limits count as set.
TruncateRule(s, lengthset, maxlength, linesset, maxlines) ==
    IF lengthset /\ Len(s) > maxlength
    THEN FirstChars(s, maxlength - 1) \o Marker
    ELSE IF linesset /\ Len(splitlines(s)) > maxlines
    THEN FirstLines(splitlines(s), maxlines - 1) \o Marker
    ELSE s

ThreeLinesToTwo ==
    /\ TextReturned
    /\ Len(TextLines) = 3
    /\ call.args.maxlines = 2
    /\ call.args.maxlength = NoneInt

\* C12, as claimed: a text of three lines truncated with maxLines = 2 and no length
\* limit gives the first line, a newline, the second line and the marker.
C12_AsClaimed ==
    ThreeLinesToTwo
        => call.result = TextLines[1] \o "\n" \o TextLines[2] \o Marker

\* C12: a text of three lines truncated with maxLines = 2 and no length limit gives
\* the first line directly followed by the marker: the second line is dropped with
\* the third.
C12_ThreeLinesKeepOne ==
    ThreeLinesToTwo => call.result = TextLines[1] \o Marker

\* The text "a", newline, "b", newline, "a" was truncated to "a" and the marker.
C12_Witness ==
    /\ ThreeLinesToTwo
    /\ call.args.s = "a\nb\na"
    /\ call.result = "a...[Truncated]"

\* A call of _truncatedict has returned.
DictReturned == call.state = "Returned" /\ call.op = "_truncatedict"

\* The entries of the mapping rendered as "key: value", each truncated on its own
\* by truncateText under the per-item limits.
Rendered(d, maxlengthperitem, maxlinesperitem) ==
    [i \in 1..Len(d) |->
        _truncatestring(d[i][1] \o ": " \o d[i][2], maxlengthperitem, maxlinesperitem)]

\* The reference rule of truncateMapping, given whether the item limit is set.
MappingRule(d, itemsset, maxitems, maxlengthperitem, maxlinesperitem) ==
    LET count == Len(d)
        kept == IF itemsset /\ maxitems < count THEN maxitems ELSE count
    IN  "{" \o Join(", ", SubSeq(Rendered(d, maxlengthperitem, maxlinesperitem), 1, kept))
            \o "}" \o (IF itemsset /\ count > maxitems THEN "...[Truncated Items]" ELSE "")

InGet == call.state # "Idle" /\ call.op = "get"

\* The records the call has appended so far are those after position logstart.
\* What holds in every state of a get call.
GetCallState ==
    InGet =>
        /\ call.state \in {"Sent", "Succeeded", "Failed"}
        \* the transport has been invoked, once
        /\ Len(wire) = 1
        /\ wire[1].verb = "get"
        \* one record, of level Info and not success-info, was appended before
        /\ call.logsent = call.logstart + 1
        /\ Len(meta) >= call.logsent
        /\ meta[call.logsent].op = "log"
        /\ meta[call.logsent].level = "Info"
        /\ ~meta[call.logsent].successinfo
        \* nothing more is appended until the transport has returned
        /\ call.state = "Sent" => (Len(Log) = call.logsent /\ call.got = NoTransport)
        \* a further record is one success-info record, after a response only
        /\ Len(Log) \in {call.logsent, call.logsent + 1}
        /\ Len(Log) = call.logsent + 1
              => (call.state = "Succeeded" /\ call.got.type = "response"
                     /\ LastIsSuccessInfo)
        \* a failed call leaves the attempt record and no success-info record
        /\ call.state = "Failed"
              => (/\ Len(Log) = call.logsent
                  /\ call.result.kind \in {"NoInternetError", "HTTPError"}
                  /\ \A i \in (call.logstart + 1)..Len(meta) : ~meta[i].successinfo)

\* What holds of every step of a get call: Sent follows the call, Succeeded or
\* Failed follows Sent without a further invocation of the transport, and nothing
\* follows Succeeded or Failed.
GetCallStep ==
    /\ (call.state = "Idle" /\ call'.state # "Idle" /\ call'.op = "get")
          => (call'.state = "Sent" /\ Len(wire') = Len(wire) + 1)
    /\ (InGet /\ call.state = "Sent")
          => (/\ call'.state \in {"Succeeded", "Failed"}
              /\ call'.op = "get"
              /\ wire' = wire
              /\ SubSeq(Log', 1, Len(Log)) = Log)
    /\ (InGet /\ call.state \in {"Succeeded", "Failed"}) => UNCHANGED vars

\* C14: every get call follows Building -> Sent -> {Succeeded, Failed}: exactly one
\* Info-level record is appended to the history before the transport is invoked,
\* the transport is invoked exactly once per call (no retry after any kind of
\* failure), a success or non-fatal bad-status record is appended only after the
\* transport has returned a response, and a call that ends Failed leaves the
\* history with the attempt record and no success-info record of that call.
C14_GetStateMachine == [](GetCallState) /\ [][GetCallStep]_vars

\* A get call has ended Failed with NoInternetError: one invocation of the
\* transport, and the attempt record the last of the history.
C14_Witness ==
    /\ InGet
    /\ call.state = "Failed"
    /\ call.result.kind = "NoInternetError"
    /\ Len(wire) = 1
    /\ Len(Log) = call.logsent
    /\ meta[Len(meta)].level = "Info"

====
